---- MODULE Spec2Model ----
(***************************************************************************)
(* The pipeline interpreter of cmd/uv3dp/main.go (evaluate) and the layer  *)
(* cache decorator it interposes after the first decode.                   *)
(***************************************************************************)
EXTENDS Integers, Sequences, FiniteSets, TLC

VARIABLES
    tokens0,    \* the argument list evaluate was called with (history)
    args,       \* evaluate's remaining tokens
    input,      \* evaluate's live Printable (NilP until a decode)
    err,        \* evaluate's named result err
    pc,         \* position of evaluate: "start", "loop", "done"
    log,        \* every call evaluate made to a collaborator, in order
    cP,         \* cache: content of each layer of the wrapped Printable
    cCap,       \* cache: capacity (0 while not constructed)
    cStore,     \* cache: stored content per layer index (NoLayer if absent)
    cOrder,     \* cache: cached indices, least recently used first
    cOut,       \* cache: the last layer read through the decorator
    cHist       \* cache: every index read so far, least recently read first (history)

vars == <<tokens0, args, input, err, pc, log, cP, cCap, cStore, cOrder, cOut, cHist>>
evalVars == <<tokens0, args, input, err, pc, log>>
cacheVars == <<cP, cCap, cStore, cOrder, cOut, cHist>>

---------------------------------------------------------------------------
(* Bounds *)

MaxLen == 4
NumLayers == 3
MaxCap == 2

---------------------------------------------------------------------------
(* Tokens *)

defaultCachedLayers == 64

commandMap == {"info", "decimate", "exposure"}

\* Tokens a registered codec claims (the sl1 and cbddlp packages are imported).
FormatTokens == {"job.sl1", "job.ctb"}

\* A file token no registered codec claims.
UnknownTokens == {"job.bad"}

\* Option tokens: one every flag set accepts, one no flag set accepts.
GoodOptions == {"--ok"}
BadOptions == {"--bad"}
OptionTokens == GoodOptions \cup BadOptions

Tokens == {"help"} \cup commandMap \cup FormatTokens \cup UnknownTokens \cup OptionTokens

RECURSIVE SeqsUpTo(_)
SeqsUpTo(n) ==
    IF n = 0 THEN {<<>>}
    ELSE LET S == SeqsUpTo(n - 1)
         IN S \cup {Append(s, t) : s \in {x \in S : Len(x) = n - 1}, t \in Tokens}

---------------------------------------------------------------------------
(* Printable values *)

NilP == [nil |-> TRUE, src |-> "none", cached |-> FALSE, cap |-> 0, fl |-> <<>>]

\* The value format.Printable() yields for the file named tok.
Decoded(tok) == [nil |-> FALSE, src |-> tok, cached |-> FALSE, cap |-> 0, fl |-> <<>>]

\* uv3dp.NewCachedPrintable(p, c): a non-nil decorator around p.
NewCachedPrintable(p, c) == [p EXCEPT !.nil = FALSE, !.cached = TRUE, !.cap = c]

\* A non-nil value a Commander builds from its input.
Filtered(cmd, p) == [p EXCEPT !.nil = FALSE, !.fl = Append(@, cmd)]

---------------------------------------------------------------------------
(* Collaborators *)

IsHelpNever(tok) == FALSE

IsHelp(tok) == tok = "help"

foundNever(tok) == FALSE

\* "item, found := commandMap[args[0]]"
found(tok) == tok \in commandMap

\* uv3dp.NewFormat succeeds iff a registered codec claims the token.
NewFormatOk(tok) == tok \in FormatTokens

\* Parse of a flag set (interspersed off): the leading option tokens are
\* consumed, the first unknown one is an error.
RECURSIVE ParseArgs(_)
ParseArgs(a) ==
    IF a = <<>> THEN <<>>
    ELSE IF Head(a) \in OptionTokens THEN ParseArgs(Tail(a))
    ELSE a

RECURSIVE ParseOk(_)
ParseOk(a) ==
    IF a = <<>> THEN TRUE
    ELSE IF Head(a) \in BadOptions THEN FALSE
    ELSE IF Head(a) \in GoodOptions THEN ParseOk(Tail(a))
    ELSE TRUE

ResidualOfAll(a) == ParseArgs(a)

\* "x.Parse(args[1:]); args = x.Args()": the tokens left after this segment.
Residual(a) == ParseArgs(Tail(a))

\* What format.Printable() may return.
PrintableResults(tok) ==
    { [out |-> Decoded(tok), err |-> "nil"],
      [out |-> NilP, err |-> "DecodeError"] }

\* What format.SetPrintable(p) may return.
SetPrintableResults == {"nil", "EncodeError"}

\* What a Commander's Filter may return: the interface allows any pair.
FilterResults(cmd, p) ==
    { [out |-> Filtered(cmd, p), err |-> "nil"],
      [out |-> NilP, err |-> "nil"],
      [out |-> NilP, err |-> IF p.nil THEN "NoInputError" ELSE "FilterError"] }

---------------------------------------------------------------------------
(* evaluate *)

\* Position in tokens0 of the token at the head of args.
Pos == Len(tokens0) - Len(args) + 1

Call(op, tok, in, out, e) ==
    [op |-> op, pos |-> Pos, tok |-> tok, in |-> in, out |-> out, err |-> e]

PcAfterNoReturn(e) == "loop"

\* "if err != nil { return }"
PcAfter(e) == IF e = "nil" THEN "loop" ELSE "done"

IsInputAlways(p) == TRUE

\* "if input == nil": this format token is read, not written.
IsInput(p) == p.nil

AfterSetPrintableConsumed(p) == NilP

\* The live value after format.SetPrintable(input): input is not assigned.
AfterSetPrintable(p) == p

\* evaluate called with no arguments: Usage, return nil.
NoArgs ==
    /\ pc = "start"
    /\ Len(args) = 0
    /\ log' = Append(log, Call("Usage", "", NilP, NilP, "nil"))
    /\ pc' = "done"
    /\ UNCHANGED <<tokens0, args, input, err, cacheVars>>

\* var input, format; loop entry.
Enter ==
    /\ pc = "start"
    /\ Len(args) > 0
    /\ pc' = "loop"
    /\ UNCHANGED <<tokens0, args, input, err, log, cacheVars>>

\* The loop condition fails: return err (nil).
Exhausted ==
    /\ pc = "loop"
    /\ Len(args) = 0
    /\ pc' = "done"
    /\ UNCHANGED <<tokens0, args, input, err, log, cacheVars>>

HelpContinues ==
    /\ pc = "loop"
    /\ Len(args) > 0
    /\ args[1] = "help"
    /\ log' = Append(log, Call("Usage", args[1], NilP, NilP, "nil"))
    /\ args' = Tail(args)
    /\ UNCHANGED <<tokens0, input, err, pc, cacheVars>>

\* "help" at the head of the remaining tokens: Usage, return.
Help ==
    /\ pc = "loop"
    /\ Len(args) > 0
    /\ IsHelp(args[1])
    /\ log' = Append(log, Call("Usage", args[1], NilP, NilP, "nil"))
    /\ pc' = "done"
    /\ UNCHANGED <<tokens0, args, input, err, cacheVars>>

FormatUnrecognizedSkipped ==
    /\ pc = "loop"
    /\ Len(args) > 0
    /\ args[1] \notin ({"help"} \cup commandMap \cup FormatTokens)
    /\ log' = Append(log, Call("NewFormat", args[1], NilP, NilP, "UnrecognizedFormat"))
    /\ args' = Tail(args)
    /\ UNCHANGED <<tokens0, input, err, pc, cacheVars>>

\* uv3dp.NewFormat fails.
FormatUnrecognized ==
    /\ pc = "loop"
    /\ Len(args) > 0
    /\ ~IsHelp(args[1])
    /\ ~found(args[1])
    /\ ~NewFormatOk(args[1])
    /\ log' = Append(log, Call("NewFormat", args[1], NilP, NilP, "UnrecognizedFormat"))
    /\ err' = "UnrecognizedFormat"
    /\ pc' = PcAfter(err')
    /\ UNCHANGED <<tokens0, args, input, cacheVars>>

\* format.Parse fails.
FormatParseFail ==
    /\ pc = "loop"
    /\ Len(args) > 0
    /\ ~IsHelp(args[1])
    /\ ~found(args[1])
    /\ NewFormatOk(args[1])
    /\ ~ParseOk(Tail(args))
    /\ log' = log \o << Call("NewFormat", args[1], NilP, NilP, "nil"),
                        Call("FormatParse", args[1], NilP, NilP, "BadOption") >>
    /\ err' = "BadOption"
    /\ pc' = PcAfter(err')
    /\ UNCHANGED <<tokens0, args, input, cacheVars>>

FormatDecodeUnwrapped ==
    /\ pc = "loop"
    /\ Len(args) > 0
    /\ args[1] \in FormatTokens
    /\ ParseOk(Tail(args))
    /\ input.nil
    /\ args' = Residual(args)
    /\ \E r \in PrintableResults(args[1]) :
         /\ err' = r.err
         /\ pc' = IF r.err = "nil" THEN "loop" ELSE "done"
         /\ input' = r.out
         /\ log' = log \o
              << Call("NewFormat", args[1], NilP, NilP, "nil"),
                 Call("FormatParse", args[1], NilP, NilP, "nil"),
                 Call("Printable", args[1], input, r.out, r.err) >>
    /\ UNCHANGED <<tokens0, cacheVars>>

FormatDecodeThenEncode ==
    /\ pc = "loop"
    /\ Len(args) > 0
    /\ args[1] \in FormatTokens
    /\ ParseOk(Tail(args))
    /\ input.nil
    /\ args' = Residual(args)
    /\ input' = NewCachedPrintable(Decoded(args[1]), defaultCachedLayers)
    /\ err' = "nil"
    /\ log' = log \o
         << Call("NewFormat", args[1], NilP, NilP, "nil"),
            Call("FormatParse", args[1], NilP, NilP, "nil"),
            Call("Printable", args[1], input, Decoded(args[1]), "nil"),
            Call("NewCachedPrintable", args[1], Decoded(args[1]), input', "nil"),
            Call("SetPrintable", args[1], input', NilP, "nil") >>
    /\ UNCHANGED <<tokens0, pc, cacheVars>>

\* First format token: decode and wrap in the layer cache.
FormatDecode ==
    /\ pc = "loop"
    /\ Len(args) > 0
    /\ ~IsHelp(args[1])
    /\ ~found(args[1])
    /\ NewFormatOk(args[1])
    /\ ParseOk(Tail(args))
    /\ IsInput(input)
    /\ args' = Residual(args)
    /\ \E r \in PrintableResults(args[1]) :
         /\ err' = r.err
         /\ pc' = PcAfter(r.err)
         /\ IF r.err = "nil"
            THEN /\ input' = NewCachedPrintable(r.out, defaultCachedLayers)
                 /\ log' = log \o
                      << Call("NewFormat", args[1], NilP, NilP, "nil"),
                         Call("FormatParse", args[1], NilP, NilP, "nil"),
                         Call("Printable", args[1], input, r.out, "nil"),
                         Call("NewCachedPrintable", args[1], r.out, input', "nil") >>
            ELSE /\ input' = r.out
                 /\ log' = log \o
                      << Call("NewFormat", args[1], NilP, NilP, "nil"),
                         Call("FormatParse", args[1], NilP, NilP, "nil"),
                         Call("Printable", args[1], input, r.out, r.err) >>
    /\ UNCHANGED <<tokens0, cacheVars>>

\* Later format token: encode the live value.
FormatEncode ==
    /\ pc = "loop"
    /\ Len(args) > 0
    /\ ~IsHelp(args[1])
    /\ ~found(args[1])
    /\ NewFormatOk(args[1])
    /\ ParseOk(Tail(args))
    /\ ~IsInput(input)
    /\ args' = Residual(args)
    /\ \E e \in SetPrintableResults :
         /\ err' = e
         /\ pc' = PcAfter(e)
         /\ log' = log \o
              << Call("NewFormat", args[1], NilP, NilP, "nil"),
                 Call("FormatParse", args[1], NilP, NilP, "nil"),
                 Call("SetPrintable", args[1], input, NilP, e) >>
    /\ input' = AfterSetPrintable(input)
    /\ UNCHANGED <<tokens0, cacheVars>>

CommandParseFailLate ==
    /\ pc = "loop"
    /\ Len(args) > 0
    /\ args[1] \in commandMap
    /\ ~ParseOk(Tail(args))
    /\ log' = log \o << Call("NewCommander", args[1], NilP, NilP, "nil"),
                        Call("Filter", args[1], input, Filtered(args[1], input), "nil"),
                        Call("CommandParse", args[1], NilP, NilP, "BadOption") >>
    /\ input' = Filtered(args[1], input)
    /\ err' = "BadOption"
    /\ pc' = "done"
    /\ UNCHANGED <<tokens0, args, cacheVars>>

\* cmd.Parse fails.
CommandParseFail ==
    /\ pc = "loop"
    /\ Len(args) > 0
    /\ ~IsHelp(args[1])
    /\ found(args[1])
    /\ ~ParseOk(Tail(args))
    /\ log' = log \o << Call("NewCommander", args[1], NilP, NilP, "nil"),
                        Call("CommandParse", args[1], NilP, NilP, "BadOption") >>
    /\ err' = "BadOption"
    /\ pc' = PcAfter(err')
    /\ UNCHANGED <<tokens0, args, input, cacheVars>>

CommandFilterDiscarded ==
    /\ pc = "loop"
    /\ Len(args) > 0
    /\ args[1] # "help"
    /\ args[1] \in commandMap
    /\ ParseOk(Tail(args))
    /\ args' = Residual(args)
    /\ \E r \in FilterResults(args[1], input) :
         /\ err' = r.err
         /\ pc' = IF r.err = "nil" THEN "loop" ELSE "done"
         /\ log' = log \o
              << Call("NewCommander", args[1], NilP, NilP, "nil"),
                 Call("CommandParse", args[1], NilP, NilP, "nil"),
                 Call("Filter", args[1], input, r.out, r.err) >>
    /\ UNCHANGED <<tokens0, input, cacheVars>>

\* cmd.Filter(input), whatever input is.
CommandFilter ==
    /\ pc = "loop"
    /\ Len(args) > 0
    /\ ~IsHelp(args[1])
    /\ found(args[1])
    /\ ParseOk(Tail(args))
    /\ args' = Residual(args)
    /\ \E r \in FilterResults(args[1], input) :
         /\ input' = r.out
         /\ err' = r.err
         /\ pc' = PcAfter(r.err)
         /\ log' = log \o
              << Call("NewCommander", args[1], NilP, NilP, "nil"),
                 Call("CommandParse", args[1], NilP, NilP, "nil"),
                 Call("Filter", args[1], input, r.out, r.err) >>
    /\ UNCHANGED <<tokens0, cacheVars>>

---------------------------------------------------------------------------
(* Layer cache decorator (uv3dp.CachedPrintable) *)

NoLayer == "none"
Contents == {"A", "B"}
Layers == 0 .. (NumLayers - 1)

NoRead == [valid |-> FALSE, idx |-> 0, val |-> NoLayer, hit |-> FALSE]

EmptyStore == [i \in Layers |-> NoLayer]

\* The wrapped Printable's own layer(i).
WrappedLayer(p, i) == p[i]

IsHit(store, i) == store[i] # NoLayer

CacheStoreNextIndex(store, i, v) == [store EXCEPT ![(i + 1) % NumLayers] = v]

\* Storing content v for index i.
CacheStore(store, i, v) == [store EXCEPT ![i] = v]

TouchOnInsertOnly(order, i) ==
    IF \E k \in 1 .. Len(order) : order[k] = i THEN order ELSE Append(order, i)

\* i becomes the most recently used index.
Touch(order, i) == SelectSeq(order, LAMBDA j : j # i) \o <<i>>

\* Eviction of the least recently used entry once more than cap are held.
EvictStore(store, order, cap) ==
    IF Len(order) > cap THEN [store EXCEPT ![Head(order)] = NoLayer] ELSE store

EvictOrder(order, cap) ==
    IF Len(order) > cap THEN Tail(order) ELSE order

\* NewCachedPrintable(P, c) with c > 0.
CacheConstruct ==
    /\ cCap = 0
    /\ \E c \in 1 .. MaxCap : cCap' = c
    /\ cStore' = EmptyStore
    /\ cOrder' = <<>>
    /\ UNCHANGED <<cP, cOut, cHist, evalVars>>

\* layer(i) on a hit: the stored value, no delegation.
CacheHit ==
    /\ cCap > 0
    /\ \E i \in Layers :
         /\ IsHit(cStore, i)
         /\ cOut' = [valid |-> TRUE, idx |-> i, val |-> cStore[i], hit |-> TRUE]
         /\ cOrder' = Touch(cOrder, i)
         /\ cHist' = SelectSeq(cHist, LAMBDA j : j # i) \o <<i>>
    /\ UNCHANGED <<cP, cCap, cStore, evalVars>>

\* layer(i) on a miss: delegate, store, evict.
CacheMiss ==
    /\ cCap > 0
    /\ \E i \in Layers :
         /\ ~IsHit(cStore, i)
         /\ LET v == WrappedLayer(cP, i)
                st == CacheStore(cStore, i, v)
                ord == Touch(cOrder, i)
            IN /\ cOut' = [valid |-> TRUE, idx |-> i, val |-> v, hit |-> FALSE]
               /\ cStore' = EvictStore(st, ord, cCap)
               /\ cOrder' = EvictOrder(ord, cCap)
               /\ cHist' = SelectSeq(cHist, LAMBDA j : j # i) \o <<i>>
    /\ UNCHANGED <<cP, cCap, evalVars>>

---------------------------------------------------------------------------
(* Specifications *)

NoCache ==
    /\ cP = [i \in Layers |-> NoLayer]
    /\ cCap = 0
    /\ cStore = EmptyStore
    /\ cOrder = <<>>
    /\ cOut = NoRead
    /\ cHist = <<>>

Init ==
    /\ tokens0 \in SeqsUpTo(MaxLen)
    /\ args = tokens0
    /\ input = NilP
    /\ err = "nil"
    /\ pc = "start"
    /\ log = <<>>
    /\ NoCache

Next ==
    \/ NoArgs
    \/ Enter
    \/ Exhausted
    \/ Help
    \/ FormatUnrecognized
    \/ FormatParseFail
    \/ FormatDecode
    \/ FormatEncode
    \/ CommandParseFail
    \/ CommandFilter

Spec == Init /\ [][Next]_vars

\* evaluate runs on one goroutine with no blocking step of its own: an
\* enabled step is eventually taken.
FairSpec == Init /\ [][Next]_vars /\ WF_vars(Next)

\* The decorator alone, around any Printable and with any capacity.
CacheInit ==
    /\ tokens0 = <<>>
    /\ args = <<>>
    /\ input = NilP
    /\ err = "nil"
    /\ pc = "done"
    /\ log = <<>>
    /\ cP \in [Layers -> Contents]
    /\ cCap = 0
    /\ cStore = EmptyStore
    /\ cOrder = <<>>
    /\ cOut = NoRead
    /\ cHist = <<>>

CacheNext ==
    \/ CacheConstruct
    \/ CacheHit
    \/ CacheMiss

CacheSpec == CacheInit /\ [][CacheNext]_vars

---------------------------------------------------------------------------
(* Properties *)

IsIO(c) == c.op \in {"Printable", "SetPrintable", "Filter"}

\* The decodes, encodes and Filter calls made so far, in order.
IO(l) == SelectSeq(l, IsIO)

Stage(c) == [op |-> c.op, pos |-> c.pos, tok |-> c.tok]

StagesOf(l) == [i \in 1 .. Len(IO(l)) |-> Stage(IO(l)[i])]

IsPrefix(s, t) == Len(s) <= Len(t) /\ s = SubSeq(t, 1, Len(s))

Last(s) == s[Len(s)]

\* The tokens at segment boundaries of a token sequence, with their positions.
RECURSIVE Heads(_, _)
Heads(a, pos) ==
    IF a = <<>> THEN <<>>
    ELSE LET rest == ParseArgs(Tail(a))
         IN <<[tok |-> a[1], pos |-> pos]>> \o Heads(rest, pos + Len(a) - Len(rest))

\* The stages a linear pipeline over these tokens consists of.
Expected(a) ==
    LET h == Heads(a, 1)
    IN [i \in 1 .. Len(h) |->
          [op |-> IF h[i].tok \in commandMap THEN "Filter"
                  ELSE IF i = 1 THEN "Printable" ELSE "SetPrintable",
           pos |-> h[i].pos, tok |-> h[i].tok]]

\* A sequence of format and command segments that starts with a format.
IsPipeline(a) ==
    /\ a # <<>>
    /\ a[1] \in FormatTokens
    /\ \A i \in 1 .. Len(Heads(a, 1)) :
         Heads(a, 1)[i].tok \in FormatTokens \cup commandMap

\* Every call so far returned a nil error, and every Filter a Printable.
AllSucceeded ==
    \A i \in 1 .. Len(log) :
        /\ log[i].err = "nil"
        /\ log[i].op = "Filter" => ~log[i].out.nil

Count(op) == Cardinality({i \in 1 .. Len(log) : log[i].op = op})

\* C1: over a token sequence that starts with a format token and whose
\* stages all succeed (nil error, and each Filter yields a Printable), the
\* decodes, encodes and Filter calls made are, in order, one decode at the
\* first format token, one encode per later format token and one Filter per
\* command token, left to right; at the return nothing is missing.
C1_PipelineLinearity ==
    (IsPipeline(tokens0) /\ AllSucceeded) =>
        /\ IsPrefix(StagesOf(log), Expected(tokens0))
        /\ (pc = "done" /\ err = "nil") => StagesOf(log) = Expected(tokens0)

C1_Witness ==
    /\ pc = "done"
    /\ err = "nil"
    /\ IsPipeline(tokens0)
    /\ AllSucceeded
    /\ Count("Printable") = 1
    /\ Count("Filter") >= 1
    /\ Count("SetPrintable") >= 2

\* C2: when the first token is a command whose options its Parse accepts,
\* evaluate fails with NoInputError and performs no decode and no encode.
C2_NoInputRejection ==
    (pc = "done" /\ tokens0 # <<>> /\ tokens0[1] \in commandMap
        /\ ParseOk(Tail(tokens0))) =>
        /\ err = "NoInputError"
        /\ Count("Printable") = 0
        /\ Count("SetPrintable") = 0

\* C3: Filter is never called with a nil live value.
C3_FilterInputNonNil ==
    \A i \in 1 .. Len(log) : log[i].op = "Filter" => ~log[i].in.nil

DecodeSucceeded ==
    \E i \in 1 .. Len(log) : log[i].op = "Printable" /\ log[i].err = "nil"

\* C4: once a decode has succeeded and the live Printable is non-nil, it
\* stays non-nil after every step that does not end evaluate with an error.
C4_LoadedStaysLoaded ==
    [][(DecodeSucceeded /\ ~input.nil /\ err' = "nil") => ~input'.nil]_vars

\* C5: decode is called only with no live Printable, encode only with one,
\* and decode is called at most once in a run.
C5_DecodeOnce ==
    /\ \A i \in 1 .. Len(log) :
         /\ log[i].op = "Printable" => log[i].in.nil
         /\ log[i].op = "SetPrintable" => ~log[i].in.nil
    /\ Count("Printable") <= 1

EncodeStep ==
    /\ Len(log') > Len(log)
    /\ Last(log').op = "SetPrintable"
    /\ Last(log').err = "nil"

\* C6: a successful encode is given the live value and leaves it as it was;
\* an encode that directly follows another encode is given the same value.
C6_EncodeKeepsLive ==
    [][EncodeStep =>
         /\ Last(log').in = input
         /\ input' = input
         /\ (IO(log) # <<>> /\ Last(IO(log)).op = "SetPrintable") =>
               Last(IO(log)).in = Last(log').in]_vars

C6_Witness ==
    /\ Len(IO(log)) >= 3
    /\ Last(IO(log)).op = "SetPrintable"
    /\ Last(IO(log)).err = "nil"
    /\ IO(log)[Len(IO(log)) - 1].op = "SetPrintable"
    /\ input = Last(IO(log)).in

Unrecognized(tok) == tok \notin ({"help"} \cup commandMap \cup FormatTokens)

\* C7: a token at a segment boundary that is not help, not a command and
\* claimed by no format ends evaluate with UnrecognizedFormat; the only call
\* made for it is the failed format lookup, and nothing is called after.
C7_UnrecognizedRejected ==
    [][/\ pc # "done"
       /\ (pc = "loop" /\ args # <<>> /\ Unrecognized(args[1])) =>
            /\ pc' = "done"
            /\ err' = "UnrecognizedFormat"
            /\ log' = Append(log, Call("NewFormat", args[1], NilP, NilP,
                                       "UnrecognizedFormat"))
            /\ input' = input]_vars

C7_Witness ==
    /\ pc = "done"
    /\ err = "UnrecognizedFormat"
    /\ Last(log).op = "NewFormat"
    /\ Count("Printable") = 1
    /\ Last(log).pos < Len(tokens0)

\* C8: with no tokens, or with help as the first token, evaluate returns
\* nil after Usage and never decodes, encodes or filters.
C8_UsageDisplay ==
    (tokens0 = <<>> \/ tokens0[1] = "help") =>
        /\ err = "nil"
        /\ IO(log) = <<>>
        /\ pc # "done" => (log = <<>> /\ ENABLED (NoArgs \/ Enter \/ Help))
        /\ pc = "done" => (Len(log) = 1 /\ log[1].op = "Usage")

C8_Witness ==
    /\ pc = "done"
    /\ Len(tokens0) > 1
    /\ tokens0[1] = "help"
    /\ tokens0[2] \in FormatTokens
    /\ Count("Usage") = 1

\* C9: the first failing call ends evaluate with its error: it is the last
\* call made, nothing is called after the return, and the calls made before
\* it (the completed encodes among them) stay as they were.
C9_FailFast ==
    [][/\ pc # "done"
       /\ IsPrefix(log, log')
       /\ \A i \in (Len(log) + 1) .. Len(log') :
            log'[i].err # "nil" =>
                /\ i = Len(log')
                /\ err' = log'[i].err
                /\ pc' = "done"
       /\ err' # "nil" =>
            /\ pc' = "done"
            /\ Len(log') > Len(log)
            /\ Last(log').err = err']_vars

C9_Witness ==
    /\ pc = "done"
    /\ err # "nil"
    /\ Last(log).err = err
    /\ \E i \in 1 .. Len(log) : log[i].op = "SetPrintable" /\ log[i].err = "nil"

\* C10: every layer read through the cache returns the content the wrapped
\* Printable has for that index.
C10_CacheTransparent ==
    cOut.valid => cOut.val = cP[cOut.idx]

C10_Witness ==
    /\ cOut.valid
    /\ cOut.hit
    /\ Len(cOrder) = cCap
    /\ \E i \in Layers : ~IsHit(cStore, i) /\ cP[i] # cOut.val

Stored(store) == {j \in Layers : store[j] # NoLayer}

\* The index of set S that was read least recently, by the read history h.
LeastRecent(S, h) ==
    h[CHOOSE k \in 1 .. Len(h) :
        /\ h[k] \in S
        /\ \A m \in 1 .. (k - 1) : h[m] \notin S]

\* C11: the cache never holds more than its capacity; a read of a cached
\* index is a hit that leaves the set of cached indices as it was, and a read
\* of an uncached index adds it and, when the cache is full, evicts exactly
\* the cached index that was read least recently (hits counted as reads).
C11_CacheBoundLRU ==
    [][cCap > 0 =>
         LET i == cOut'.idx
             old == Stored(cStore)
             new == Stored(cStore')
         IN /\ Cardinality(new) <= cCap
            /\ i \in new
            /\ cOut'.hit = (i \in old)
            /\ i \in old => new = old
            /\ (i \notin old /\ Cardinality(old) < cCap) => new = old \cup {i}
            /\ (i \notin old /\ Cardinality(old) >= cCap) =>
                 new = (old \cup {i}) \ {LeastRecent(old, cHist)}]_vars

C11_Witness ==
    /\ cCap >= 2
    /\ Cardinality(Stored(cStore)) = cCap
    /\ Len(cHist) > cCap
    /\ cOut.valid
    /\ ~cOut.hit
    /\ cHist[1] \notin Stored(cStore)

\* The command tokens at segment boundaries before position p, in order.
CommandsBefore(a, p) ==
    LET h == SelectSeq(Heads(a, 1), LAMBDA x : x.pos < p /\ x.tok \in commandMap)
    IN [i \in 1 .. Len(h) |-> h[i].tok]

\* The decoded, cache-wrapped value of the first token after the Filters of
\* the commands before position p.
ExpectedLive(a, p) ==
    [nil |-> FALSE, src |-> a[1], cached |-> TRUE, cap |-> defaultCachedLayers,
     fl |-> CommandsBefore(a, p)]

C13_CacheConstructedOnce ==
    /\ Count("NewCachedPrintable") <= 1
    /\ \A i \in 1 .. Len(log) :
         /\ log[i].op = "NewCachedPrintable" =>
              /\ i > 1
              /\ log[i - 1].op = "Printable"
              /\ log[i - 1].err = "nil"
              /\ log[i].in = log[i - 1].out
              /\ log[i].out.cap = 64
         /\ (log[i].op = "Printable" /\ log[i].err = "nil") =>
              (i < Len(log) /\ log[i + 1].op = "NewCachedPrintable")

\* C14: "help" at any segment boundary ends evaluate with a nil error after
\* Usage; what was called before stays, the live value is untouched, and
\* nothing is called after the return.
C14_HelpAnywhere ==
    [][/\ pc # "done"
       /\ (pc = "loop" /\ args # <<>> /\ args[1] = "help") =>
            /\ pc' = "done"
            /\ err' = "nil"
            /\ log' = Append(log, Call("Usage", "help", NilP, NilP, "nil"))
            /\ input' = input]_vars

C14_Witness ==
    /\ pc = "done"
    /\ err = "nil"
    /\ Last(log).op = "Usage"
    /\ Last(log).pos > 1
    /\ Last(log).pos < Len(tokens0)
    /\ Count("SetPrintable") = 1

\* The decodes and encodes made by the Format instance created at position p.
FormatOps(p) ==
    {i \in 1 .. Len(log) :
        log[i].pos = p /\ log[i].op \in {"Printable", "SetPrintable"}}

\* C15: one Format instance is created per format segment, and it performs
\* at most one operation, a decode or an encode, after its creation.
C15_OneOperationPerFormat ==
    \A p \in 1 .. Len(tokens0) :
        /\ Cardinality({i \in 1 .. Len(log) :
                          log[i].pos = p /\ log[i].op = "NewFormat"}) <= 1
        /\ Cardinality(FormatOps(p)) <= 1
        /\ \A i \in FormatOps(p) :
             \E k \in 1 .. (i - 1) :
                 /\ log[k].pos = p
                 /\ log[k].op = "NewFormat"
                 /\ log[k].err = "nil"
                 /\ log[k].tok = tokens0[p]

C15_Witness ==
    /\ pc = "done"
    /\ Count("NewFormat") = 3
    /\ Count("Printable") = 2
    /\ Count("SetPrintable") = 1

\* C16: at a segment boundary "help" only displays usage, a registered
\* command name only creates and runs that Commander, and only the other
\* tokens are resolved as a format.
C16_DispatchPrecedence ==
    [][(pc = "loop" /\ args # <<>>) =>
         LET first == log'[Len(log) + 1]
         IN /\ Len(log') > Len(log)
            /\ first.tok = args[1]
            /\ args[1] = "help" => first.op = "Usage"
            /\ (args[1] # "help" /\ args[1] \in commandMap) =>
                 first.op = "NewCommander"
            /\ (args[1] # "help" /\ args[1] \notin commandMap) =>
                 first.op = "NewFormat"
            /\ \A i \in (Len(log) + 1) .. Len(log') :
                 /\ log'[i].op \in {"NewFormat", "FormatParse", "Printable",
                                    "NewCachedPrintable", "SetPrintable"} =>
                        args[1] \notin commandMap \cup {"help"}
                 /\ log'[i].op \in {"NewCommander", "CommandParse", "Filter"} =>
                        args[1] \in commandMap]_vars

C16_Witness ==
    /\ pc = "done"
    /\ Count("NewCommander") >= 1
    /\ Count("NewFormat") >= 2
    /\ Last(log).op = "Usage"
    /\ Last(log).tok = "help"

\* C17: evaluate terminates: every loop iteration either returns or leaves
\* strictly fewer tokens than it started with, and the return is reached.
C17_Terminates ==
    /\ [][pc = "loop" => (pc' = "done" \/ Len(args') < Len(args))]_vars
    /\ <>(pc = "done")

C17_Witness ==
    /\ pc = "done"
    /\ err = "nil"
    /\ Len(tokens0) = MaxLen
    /\ args = <<>>
    /\ Count("Filter") >= 1
    /\ Count("SetPrintable") >= 1
    /\ \E i \in 1 .. Len(tokens0) : tokens0[i] \in OptionTokens

ParseFailStep ==
    /\ Len(log') > Len(log)
    /\ Last(log').op \in {"FormatParse", "CommandParse"}
    /\ Last(log').err # "nil"

\* C18: a segment whose Parse fails ends evaluate with that error before the
\* segment's decode, encode or Filter; the live value is the one from before
\* the segment, the remaining tokens are untouched; and Parse fails exactly
\* when the segment's options are rejected.
C18_ParseFailureSkipsOperation ==
    [][/\ ParseFailStep =>
            /\ pc' = "done"
            /\ err' = Last(log').err
            /\ IO(log') = IO(log)
            /\ Count("NewCachedPrintable")' = Count("NewCachedPrintable")
            /\ input' = input
            /\ args' = args
       /\ (pc = "loop" /\ args # <<>> /\ args[1] \in commandMap \cup FormatTokens
             /\ \E k \in 2 .. Len(args) :
                  /\ args[k] \in BadOptions
                  /\ \A m \in 2 .. (k - 1) : args[m] \in GoodOptions) =>
            ParseFailStep]_vars

C18_Witness ==
    /\ pc = "done"
    /\ err = "BadOption"
    /\ Last(log).op = "CommandParse"
    /\ ~input.nil
    /\ input.cached
    /\ Count("SetPrintable") = 1
    /\ Count("Filter") = 0

\* The value a Filter or an encode made now would be handed: the result of
\* the latest cache construction or Filter.
RECURSIVE LatestLive(_, _)
LatestLive(l, i) ==
    IF i = 0 THEN NilP
    ELSE IF l[i].op \in {"NewCachedPrintable", "Filter"} THEN l[i].out
    ELSE LatestLive(l, i - 1)

\* C19: no Filter and no encode is handed the raw value a decode returned:
\* each is handed the cache-wrapped value or the value the latest Filter
\* returned.
C19_RawNeverHandedOn ==
    \A i \in 1 .. Len(log) :
        log[i].op \in {"Filter", "SetPrintable"} =>
            /\ log[i].in = LatestLive(log, i - 1)
            /\ \A k \in 1 .. (i - 1) :
                 (log[k].op = "Printable" /\ log[k].err = "nil") =>
                     log[i].in # log[k].out

C19_Witness ==
    /\ Len(IO(log)) = 3
    /\ IO(log)[1].op = "Printable"
    /\ IO(log)[2].op = "Filter"
    /\ IO(log)[2].in.cached
    /\ IO(log)[2].in.fl = <<>>
    /\ IO(log)[3].op = "SetPrintable"
    /\ IO(log)[3].in = IO(log)[2].out
    /\ ~IO(log)[3].in.nil

====
